---- MODULE Spec2Model ----
(***************************************************************************)
(* Gadgetbridge command bridge of wasp-os (wasp/gadgetbridge.py) together  *)
(* with the collaborators it drives: the notification store, the vibrator  *)
(* pin, the alarm scheduler and the notification view (wasp/apps/pager.py).*)
(*                                                                         *)
(* Python strings are sequences of one-character strings, so that lower(), *)
(* upper(), str(), format(), join() and the substring test "in" are        *)
(* computed character by character.  A Python value is a record with one   *)
(* field: [s |-> string], [i |-> integer] or [b |-> boolean].  A dict is a *)
(* sequence of <<key, value>> pairs with distinct keys, in insertion order.*)
(***************************************************************************)
EXTENDS Integers, Sequences, FiniteSets, TLC

(***************************************************************************)
(* Bounds of the model.                                                    *)
(***************************************************************************)
\* the scheduler fires a due alarm at most MaxLate seconds late
MaxLate == 1
\* at most MaxAlarms entries are queued in the scheduler
MaxAlarms == 2
\* at most MaxDispatch messages are delivered in one run
MaxDispatch == 2

(***************************************************************************)
(* Python values and strings.                                              *)
(***************************************************************************)
VS(x) == [s |-> x]
VI(x) == [i |-> x]
VB(x) == [b |-> x]

IsStr(v) == "s" \in DOMAIN v
IsInt(v) == "i" \in DOMAIN v
IsBool(v) == "b" \in DOMAIN v

UpperCase == <<"A","B","C","D","E","F","G","H","I","J","K","L","M",
               "N","O","P","Q","R","S","T","U","V","W","X","Y","Z">>
LowerCase == <<"a","b","c","d","e","f","g","h","i","j","k","l","m",
               "n","o","p","q","r","s","t","u","v","w","x","y","z">>
Digits == <<"0","1","2","3","4","5","6","7","8","9">>

\* lower-case letter of every upper-case letter
LowerOf == [c \in {UpperCase[k] : k \in 1..26} |->
              LowerCase[CHOOSE k \in 1..26 : UpperCase[k] = c]]

\* upper-case letter of every lower-case letter
UpperOf == [c \in {LowerCase[k] : k \in 1..26} |->
              UpperCase[CHOOSE k \in 1..26 : LowerCase[k] = c]]

\* str.lower() on one character
LowerChar(c) == IF c \in DOMAIN LowerOf THEN LowerOf[c] ELSE c

\* str.upper() on one character
UpperChar(c) == IF c \in DOMAIN UpperOf THEN UpperOf[c] ELSE c

\* str.lower()
Lower(str) == [k \in 1..Len(str) |-> LowerChar(str[k])]

\* str.upper()
Upper(str) == [k \in 1..Len(str) |-> UpperChar(str[k])]

RECURSIVE NatStr(_)
\* decimal digits of a natural number
NatStr(n) ==
    IF n < 10 THEN <<Digits[n + 1]>>
    ELSE NatStr(n \div 10) \o <<Digits[(n % 10) + 1]>>

\* str(v) of a Python value
Str(v) ==
    IF IsStr(v) THEN v.s
    ELSE IF IsInt(v) THEN (IF v.i < 0 THEN <<"-">> \o NatStr(0 - v.i) ELSE NatStr(v.i))
    ELSE IF v.b THEN <<"T","r","u","e">> ELSE <<"F","a","l","s","e">>

\* truth value of a Python value, as "not v" evaluates it
Truthy(v) ==
    IF IsBool(v) THEN v.b
    ELSE IF IsInt(v) THEN v.i # 0
    ELSE Len(v.s) > 0

RECURSIVE FindFrom(_, _, _)
\* scan of the substring test: does needle occur in hay at offset k or later
FindFrom(needle, hay, k) ==
    IF k + Len(needle) - 1 > Len(hay) THEN FALSE
    ELSE IF SubSeq(hay, k, k + Len(needle) - 1) = needle THEN TRUE
    ELSE FindFrom(needle, hay, k + 1)

\* needle in hay (Python substring test on strings)
StrIn(needle, hay) == FindFrom(needle, hay, 1)

RECURSIVE Join(_, _)
\* sep.join(parts)
Join(sep, parts) ==
    IF Len(parts) = 0 THEN <<>>
    ELSE IF Len(parts) = 1 THEN parts[1]
    ELSE parts[1] \o sep \o Join(sep, Tail(parts))

(***************************************************************************)
(* Python dicts.                                                           *)
(***************************************************************************)
DictHas(d, k) == \E j \in 1..Len(d) : d[j][1] = k

DictGet(d, k) == d[CHOOSE j \in 1..Len(d) : d[j][1] = k][2]

\* d[k] = v : overwrite in place, or append a new key
DictSet(d, k, v) ==
    IF DictHas(d, k)
    THEN [j \in 1..Len(d) |-> IF d[j][1] = k THEN <<k, v>> ELSE d[j]]
    ELSE Append(d, <<k, v>>)

\* del d[k] for a key that is present
DictDel(d, k) == SelectSeq(d, LAMBDA kv : kv[1] # k)

RECURSIVE ItemStrs(_, _)
\* "{}:{}".format(k, v) for every item of d whose key is not in skip
ItemStrs(d, skip) ==
    IF Len(d) = 0 THEN <<>>
    ELSE IF d[1][1] \in skip THEN ItemStrs(Tail(d), skip)
    ELSE <<Str(VS(d[1][1])) \o <<":">> \o Str(d[1][2])>> \o ItemStrs(Tail(d), skip)

\* the items of d as "k:v", joined by "/"
JoinItems(d, skip) == Join(<<"/">>, ItemStrs(d, skip))

(***************************************************************************)
(* String constants of gadgetbridge.py and main.py.                        *)
(***************************************************************************)
s_t == <<"t">>
s_n == <<"n">>
s_id == <<"i","d">>
s_cmd == <<"c","m","d">>
s_name == <<"n","a","m","e">>
s_number == <<"n","u","m","b","e","r">>
s_title == <<"t","i","t","l","e">>
s_body == <<"b","o","d","y">>
s_find == <<"f","i","n","d">>
s_notify == <<"n","o","t","i","f","y">>
s_unnotify == <<"n","o","t","i","f","y","-">>
s_call == <<"c","a","l","l">>
s_musicstate == <<"m","u","s","i","c","s","t","a","t","e">>
s_musicinfo == <<"m","u","s","i","c","i","n","f","o">>
s_weather == <<"w","e","a","t","h","e","r">>
s_incoming == <<"i","n","c","o","m","i","n","g">>
s_outgoing == <<"o","u","t","g","o","i","n","g">>
s_GB_except == <<"G","B","_","e","x","c","e","p","t">>
s_GB_no_task == <<"G","B","_","n","o","_","t","a","s","k">>
s_Untested == <<"U","n","t","e","s","t","e","d"," ","c","a","l","l"," ","n","o","t","i","f">>
s_GB_error == <<"G","B"," ","e","r","r","o","r",":"," ">>
s_not_impl == <<"G","a","d","g","e","t","B","r","i","d","g","e"," ","t","a","s","k"," ",
                "n","o","t"," ","i","m","p","l","e","m","e","n","t","e","d",":"," ","\"">>
s_KeyError == <<"K","e","y","E","r","r","o","r">>
s_Exception == <<"E","x","c","e","p","t","i","o","n">>

\* wasp.system._notif_filter as main.py sets it
MainFilter == << <<"s","i","g","n","a","l">>, <<"m","e","s","s","a","g","e">>,
                 <<"s","m","s">>, <<"c","a","l","l">>, <<"e","t","a","r">>,
                 <<"c","a","l","e","n","d","a","r">>, <<"m","a","i","l">>,
                 <<"t","e","s","t">> >>

\* seconds between a find command and its safety-net timeout
FindTimeout == 5

\* notify_level at or below which alerts are silent
SilentLevel == 1

\* number of pulses of the call alert
CallPulses == 3

(***************************************************************************)
(* Filter engine.  The filter setting f is [present, list]: present is     *)
(* hasattr(wasp.system, "_notif_filter"), list is the attribute's value.   *)
(***************************************************************************)
RECURSIVE MatchItems_case_sensitive(_, _)
\* the inner loop without the calls of lower()
MatchItems_case_sensitive(check, items) ==
    IF Len(items) = 0 THEN FALSE
    ELSE IF \/ StrIn(check, Str(VS(items[1][1])))
            \/ StrIn(check, Str(items[1][2]))
         THEN TRUE
         ELSE MatchItems_case_sensitive(check, Tail(items))

RECURSIVE MatchItems(_, _)
\* inner loop: for k, v in msg.items()
MatchItems(check, items) ==
    IF Len(items) = 0 THEN FALSE
    ELSE IF \/ StrIn(Lower(check), Lower(Str(VS(items[1][1]))))
            \/ StrIn(Lower(check), Lower(Str(items[1][2])))
         THEN TRUE
         ELSE MatchItems(check, Tail(items))

RECURSIVE MatchChecks(_, _)
\* outer loop: for check in wasp.system._notif_filter
MatchChecks(checks, msg) ==
    IF Len(checks) = 0 THEN FALSE
    ELSE IF MatchItems(checks[1], msg) THEN TRUE
    ELSE MatchChecks(Tail(checks), msg)

\* the filter without the hasattr test, an unset attribute read as empty
filter_notifications_no_hasattr(f, msg) == MatchChecks(f.list, msg)

filter_notifications(f, msg) ==
    IF ~f.present THEN TRUE
    ELSE MatchChecks(f.list, msg)

(***************************************************************************)
(* System context and watch, as a record s that the handlers thread        *)
(* through: notifications, pin, alarms, musicstate, musicinfo, weather,    *)
(* app, awake, effects.  effects is the log of the collaborator calls of   *)
(* the running dispatch.  The vibrator pin is active low: FALSE vibrates.  *)
(* Times are kept relative to the present second: wasp.watch.rtc.time()    *)
(* reads rtc_time, and a tick of the clock moves every queued time one     *)
(* second closer.                                                          *)
(***************************************************************************)
NoExc == [type |-> <<>>, text |-> <<>>]

Effect(s, e) == [s EXCEPT !.effects = Append(@, e)]

\* wasp.watch.rtc.time(): the present second
rtc_time == 0

\* wasp.system.notify(id, msg)
sys_notify(s, id, msg) ==
    Effect([s EXCEPT !.notifications = DictSet(@, id, msg)],
           [op |-> "notify", id |-> id, msg |-> msg,
            replaced |-> DictHas(s.notifications, id)])

\* wasp.system.unnotify(id)
sys_unnotify(s, id) ==
    Effect([s EXCEPT !.notifications = DictDel(@, id)],
           [op |-> "unnotify", id |-> id, found |-> DictHas(s.notifications, id)])

RECURSIVE InsertSorted(_, _)
InsertSorted(q, e) ==
    IF Len(q) = 0 THEN <<e>>
    ELSE IF e[1] < q[1][1] THEN <<e>> \o q
    ELSE <<q[1]>> \o InsertSorted(Tail(q), e)

\* wasp.system.set_alarm(time, action): queue the entry, keep the queue sorted
set_alarm(s, time, action) ==
    Effect([s EXCEPT !.alarms = InsertSorted(@, <<time, action>>)],
           [op |-> "set_alarm", time |-> time, action |-> action])

\* wasp.watch.vibrator.pulse(ms): a short pulse, the motor is off afterwards
pulse(s) == Effect([s EXCEPT !.pin = TRUE], [op |-> "pulse"])

\* wasp.watch.vibrator.pin(value)
set_pin(s, value) == [s EXCEPT !.pin = value]

\* wasp.system.wake()
wake(s) == Effect([s EXCEPT !.awake = TRUE], [op |-> "wake"])

\* a view that takes the newest notification instead of the oldest
NotificationApp_foreground_pops_last(s) ==
    IF Len(s.notifications) = 0 THEN Effect(s, [op |-> "StopIteration"])
    ELSE [s EXCEPT !.notifications = SubSeq(@, 1, Len(@) - 1)]

\* NotificationApp.foreground: pop the first notification and show it
NotificationApp_foreground(s) ==
    IF Len(s.notifications) = 0 THEN Effect(s, [op |-> "StopIteration"])
    ELSE [s EXCEPT !.notifications = Tail(@)]

\* wasp.system.switch(wasp.system.notifier)
switch_notifier(s) ==
    NotificationApp_foreground(
        Effect([s EXCEPT !.app = "notifier"],
               [op |-> "switch", pending |-> Len(s.notifications)]))

\* time.sleep(0.3)
sleep(s) == Effect(s, [op |-> "sleep"])

\* _error(msg): one {t:"error", msg} record on the transport
_error(s, msg) == Effect(s, [op |-> "error", msg |-> msg])

\* a callback that leaves the pin alone
vibration_timeout_idle(pin_value) == pin_value

\* a callback that toggles the pin
vibration_timeout_toggle(pin_value) == ~pin_value

\* the safety-net callback: the new level of the pin
vibration_timeout(pin_value) ==
    IF ~pin_value THEN TRUE ELSE pin_value

error_to_notification(s, level, title, msg) ==
    LET s1 == sys_notify(s, VS(title), << <<s_title, VS(title)>>, <<s_body, VS(msg)>> >>)
    IN  IF ~(level <= SilentLevel) THEN pulse(s1) ELSE s1

(***************************************************************************)
(* GB(cmd).  A handler returns [s, exc, cmd, bound]: the system after it,  *)
(* the exception it raised (NoExc when none), the dict the local variable  *)
(* cmd refers to and whether that variable is still bound ("del cmd").     *)
(***************************************************************************)
Done(s, cmd, bound) == [s |-> s, exc |-> NoExc, cmd |-> cmd, bound |-> bound]

Raise(s, type, text, cmd, bound) ==
    [s |-> s, exc |-> [type |-> type, text |-> text], cmd |-> cmd, bound |-> bound]

\* a collaborator call of the call handler that raises
Fault(s, cmd, bound) == Raise(s, s_Exception, <<"f","a","u","l","t">>, cmd, bound)

\* find arming the timeout only for n false
GB_find_arm_when_n_false(s, cmd, time) ==
    IF ~DictHas(cmd, s_n) THEN Raise(s, s_KeyError, s_n, cmd, TRUE)
    ELSE IF Truthy(DictGet(cmd, s_n))
    THEN Done(set_pin(s, ~Truthy(DictGet(cmd, s_n))), cmd, TRUE)
    ELSE Done(set_pin(set_alarm(s, time + FindTimeout, "vibration_timeout"),
                      ~Truthy(DictGet(cmd, s_n))), cmd, TRUE)

\* task == 'find'
GB_find(s, cmd, time) ==
    LET s1 == set_alarm(s, time + FindTimeout, "vibration_timeout")
    IN  IF ~DictHas(cmd, s_n) THEN Raise(s1, s_KeyError, s_n, cmd, TRUE)
        ELSE Done(set_pin(s1, ~Truthy(DictGet(cmd, s_n))), cmd, TRUE)

\* a handler that stores the message with its id field left in
GB_notify_keeps_id(s, cmd, f) ==
    IF ~filter_notifications(f, cmd) THEN Done(s, cmd, TRUE)
    ELSE IF ~DictHas(cmd, s_id) THEN Raise(s, s_KeyError, s_id, cmd, TRUE)
    ELSE Done(sys_notify(pulse(s), DictGet(cmd, s_id), cmd), cmd, TRUE)

\* a handler that pulses before it consults the filter
GB_notify_pulse_first(s, cmd, f) ==
    IF ~filter_notifications(f, cmd) THEN Done(pulse(s), cmd, TRUE)
    ELSE IF ~DictHas(cmd, s_id) THEN Raise(s, s_KeyError, s_id, cmd, TRUE)
    ELSE LET id == DictGet(cmd, s_id)
             cmd1 == DictDel(cmd, s_id)
         IN  Done(sys_notify(pulse(s), id, cmd1), cmd1, TRUE)

\* task == 'notify'
GB_notify(s, cmd, f) ==
    IF ~filter_notifications(f, cmd) THEN Done(s, cmd, TRUE)
    ELSE IF ~DictHas(cmd, s_id) THEN Raise(s, s_KeyError, s_id, cmd, TRUE)
    ELSE LET id == DictGet(cmd, s_id)
             cmd1 == DictDel(cmd, s_id)
         IN  Done(sys_notify(pulse(s), id, cmd1), cmd1, TRUE)

\* a removal that indexes the store directly: an absent id is a KeyError
GB_unnotify_strict(s, cmd) ==
    IF ~DictHas(cmd, s_id) THEN Raise(s, s_KeyError, s_id, cmd, TRUE)
    ELSE IF ~DictHas(s.notifications, DictGet(cmd, s_id))
         THEN Raise(s, s_KeyError, Str(DictGet(cmd, s_id)), cmd, TRUE)
    ELSE Done(sys_unnotify(s, DictGet(cmd, s_id)), cmd, TRUE)

\* task == 'notify-'
GB_unnotify(s, cmd) ==
    IF ~DictHas(cmd, s_id) THEN Raise(s, s_KeyError, s_id, cmd, TRUE)
    ELSE Done(sys_unnotify(s, DictGet(cmd, s_id)), cmd, TRUE)

\* the title taken from the cmd field
CallTitle_from_cmd(task, cmd) == Upper(Str(DictGet(cmd, s_cmd)))

\* title of the call notification
CallTitle(task, cmd) == Upper(Str(task))

\* body of the call notification
CallBody(cmd) ==
    LET name == IF DictHas(cmd, s_name) THEN Str(DictGet(cmd, s_name)) ELSE <<>>
        number == IF DictHas(cmd, s_number) THEN Str(DictGet(cmd, s_number)) ELSE <<>>
        rest == JoinItems(cmd, {s_number, s_name})
    IN  name \o <<" ","a","t"," ">> \o number \o <<"\n">> \o rest

RECURSIVE AlertLoop(_, _)
\* for i in range(3): pulse, sleep
AlertLoop(s, k) ==
    IF k = 0 THEN s ELSE AlertLoop(sleep(pulse(s)), k - 1)

\* an alert that switches to the notifier before it wakes the display
CallAlert_switch_first(s, cmd, fault) ==
    IF fault = "switch" THEN Fault(s, cmd, FALSE)
    ELSE LET s1 == switch_notifier(s)
         IN  IF fault = "wake" THEN Fault(s1, cmd, FALSE)
             ELSE LET s2 == wake(s1)
                  IN  IF fault = "pulse" THEN Fault(s2, cmd, FALSE)
                      ELSE Done(AlertLoop(s2, CallPulses), cmd, FALSE)

\* the alert of a call: wake, switch to the notifier, three pulses
CallAlert(s, cmd, fault) ==
    IF fault = "wake" THEN Fault(s, cmd, FALSE)
    ELSE LET s1 == wake(s)
         IN  IF fault = "switch" THEN Fault(s1, cmd, FALSE)
             ELSE LET s2 == switch_notifier(s1)
                  IN  IF fault = "pulse" THEN Fault(s2, cmd, FALSE)
                      ELSE Done(AlertLoop(s2, CallPulses), cmd, FALSE)

\* the call handler storing the notification under a numeric id
GB_call_numbered(s, task, cmd, level, fault) ==
    IF ~DictHas(cmd, s_cmd) THEN Raise(s, s_KeyError, s_cmd, cmd, TRUE)
    ELSE IF DictGet(cmd, s_cmd) \notin {VS(s_incoming), VS(s_outgoing)}
    THEN Raise(s, s_Exception, s_Untested, cmd, TRUE)
    ELSE LET note == << <<s_title, VS(CallTitle(task, cmd))>>,
                        <<s_body, VS(CallBody(cmd))>> >>
         IN  IF fault = "notify" THEN Fault(s, cmd, FALSE)
             ELSE LET s1 == sys_notify(s, VI(1), note)
                  IN  IF ~(level <= SilentLevel) THEN CallAlert(s1, cmd, fault)
                      ELSE Done(s1, cmd, FALSE)

\* the call handler raising the alert before it stores the notification
GB_call_alert_first(s, task, cmd, level, fault) ==
    IF ~DictHas(cmd, s_cmd) THEN Raise(s, s_KeyError, s_cmd, cmd, TRUE)
    ELSE IF DictGet(cmd, s_cmd) \notin {VS(s_incoming), VS(s_outgoing)}
    THEN Raise(s, s_Exception, s_Untested, cmd, TRUE)
    ELSE LET note == << <<s_title, VS(CallTitle(task, cmd))>>,
                        <<s_body, VS(CallBody(cmd))>> >>
             a == IF ~(level <= SilentLevel) THEN CallAlert(s, cmd, fault)
                  ELSE Done(s, cmd, FALSE)
         IN  IF a.exc # NoExc THEN a
             ELSE IF fault = "notify" THEN Fault(a.s, cmd, FALSE)
             ELSE Done(sys_notify(a.s, task, note), cmd, FALSE)

\* the call handler storing the notification before it tests cmd["cmd"]
GB_call_store_first(s, task, cmd, level, fault) ==
    IF ~DictHas(cmd, s_cmd) THEN Raise(s, s_KeyError, s_cmd, cmd, TRUE)
    ELSE LET note == << <<s_title, VS(CallTitle(task, cmd))>>,
                        <<s_body, VS(CallBody(cmd))>> >>
         IN  IF fault = "notify" THEN Fault(s, cmd, FALSE)
             ELSE LET s1 == sys_notify(s, task, note)
                  IN  IF DictGet(cmd, s_cmd) \notin {VS(s_incoming), VS(s_outgoing)}
                      THEN Raise(s1, s_Exception, s_Untested, cmd, TRUE)
                      ELSE IF ~(level <= SilentLevel) THEN CallAlert(s1, cmd, fault)
                      ELSE Done(s1, cmd, FALSE)

\* the call handler without the test of cmd["cmd"]
GB_call_unchecked(s, task, cmd, level, fault) ==
    IF ~DictHas(cmd, s_cmd) THEN Raise(s, s_KeyError, s_cmd, cmd, TRUE)
    ELSE LET note == << <<s_title, VS(CallTitle(task, cmd))>>,
                        <<s_body, VS(CallBody(cmd))>> >>
         IN  IF fault = "notify" THEN Fault(s, cmd, FALSE)
             ELSE LET s1 == sys_notify(s, task, note)
                  IN  IF ~(level <= SilentLevel) THEN CallAlert(s1, cmd, fault)
                      ELSE Done(s1, cmd, FALSE)

\* task == 'call'
GB_call(s, task, cmd, level, fault) ==
    IF ~DictHas(cmd, s_cmd) THEN Raise(s, s_KeyError, s_cmd, cmd, TRUE)
    ELSE IF DictGet(cmd, s_cmd) \notin {VS(s_incoming), VS(s_outgoing)}
    THEN Raise(s, s_Exception, s_Untested, cmd, TRUE)
    ELSE LET note == << <<s_title, VS(CallTitle(task, cmd))>>,
                        <<s_body, VS(CallBody(cmd))>> >>
         IN  IF fault = "notify" THEN Fault(s, cmd, FALSE)
             ELSE LET s1 == sys_notify(s, task, note)
                  IN  IF ~(level <= SilentLevel) THEN CallAlert(s1, cmd, fault)
                      ELSE Done(s1, cmd, FALSE)

\* an unhandled task treated as a failure
GB_no_task_raises(s, task, cmd, level) ==
    Raise(s, s_Exception, s_not_impl, cmd, TRUE)

\* the else branch: a task that no branch handles
GB_no_task(s, task, cmd, level) ==
    Done(error_to_notification(s, level, s_GB_no_task,
            s_not_impl \o Str(task) \o <<"\"",":"," ","\"">>
                \o JoinItems(cmd, {}) \o <<"\"">>),
         cmd, TRUE)

\* a try block whose musicinfo branch also overwrites the music state
GB_try_music_shared(s, task, cmd, time, level, f, fault) ==
    IF task = VS(s_find) THEN GB_find(s, cmd, time)
    ELSE IF task = VS(s_notify) THEN GB_notify(s, cmd, f)
    ELSE IF task = VS(s_unnotify) THEN GB_unnotify(s, cmd)
    ELSE IF task = VS(s_call) THEN GB_call(s, task, cmd, level, fault)
    ELSE IF task = VS(s_musicstate) THEN Done([s EXCEPT !.musicstate = <<cmd>>], cmd, TRUE)
    ELSE IF task = VS(s_musicinfo)
         THEN Done([s EXCEPT !.musicstate = <<cmd>>, !.musicinfo = <<cmd>>], cmd, TRUE)
    ELSE IF task = VS(s_weather) THEN Done([s EXCEPT !.weather = <<cmd>>], cmd, TRUE)
    ELSE GB_no_task(s, task, cmd, level)

\* a try block whose weather branch calls the music info setter
GB_try_weather_as_music(s, task, cmd, time, level, f, fault) ==
    IF task = VS(s_find) THEN GB_find(s, cmd, time)
    ELSE IF task = VS(s_notify) THEN GB_notify(s, cmd, f)
    ELSE IF task = VS(s_unnotify) THEN GB_unnotify(s, cmd)
    ELSE IF task = VS(s_call) THEN GB_call(s, task, cmd, level, fault)
    ELSE IF task = VS(s_musicstate) THEN Done([s EXCEPT !.musicstate = <<cmd>>], cmd, TRUE)
    ELSE IF task = VS(s_musicinfo) THEN Done([s EXCEPT !.musicinfo = <<cmd>>], cmd, TRUE)
    ELSE IF task = VS(s_weather) THEN Done([s EXCEPT !.musicinfo = <<cmd>>], cmd, TRUE)
    ELSE GB_no_task(s, task, cmd, level)

\* the try block
GB_try(s, task, cmd, time, level, f, fault) ==
    IF task = VS(s_find) THEN GB_find(s, cmd, time)
    ELSE IF task = VS(s_notify) THEN GB_notify(s, cmd, f)
    ELSE IF task = VS(s_unnotify) THEN GB_unnotify(s, cmd)
    ELSE IF task = VS(s_call) THEN GB_call(s, task, cmd, level, fault)
    ELSE IF task = VS(s_musicstate) THEN Done([s EXCEPT !.musicstate = <<cmd>>], cmd, TRUE)
    ELSE IF task = VS(s_musicinfo) THEN Done([s EXCEPT !.musicinfo = <<cmd>>], cmd, TRUE)
    ELSE IF task = VS(s_weather) THEN Done([s EXCEPT !.weather = <<cmd>>], cmd, TRUE)
    ELSE GB_no_task(s, task, cmd, level)

\* the except block: h is the outcome of the try block
GB_except(h, task, level) ==
    LET s1 == _error(h.s, h.exc.type \o <<":"," ">> \o h.exc.text)
    IN  IF ~h.bound
        THEN [s |-> s1, raised |-> "NameError", exc |-> h.exc]
        ELSE [s |-> error_to_notification(s1, level, s_GB_except,
                        s_GB_error \o h.exc.text \o <<" ","-"," "," ">>
                            \o Str(task) \o <<":">> \o JoinItems(h.cmd, {})),
              raised |-> "none", exc |-> h.exc]

\* GB(cmd): the system after the call, the exception that left it and the
\* exception the except block caught
GB(s, m, time, level, f, fault) ==
    IF ~DictHas(m, s_t) THEN [s |-> s, raised |-> "KeyError", exc |-> NoExc]
    ELSE LET task == DictGet(m, s_t)
             h == GB_try(s, task, DictDel(m, s_t), time, level, f, fault)
         IN  IF h.exc = NoExc THEN [s |-> h.s, raised |-> "none", exc |-> NoExc]
             ELSE GB_except(h, task, level)

(***************************************************************************)
(* Inbound messages and settings the runs draw from.                       *)
(***************************************************************************)
Tagged(task, fields) == << <<s_t, VS(task)>> >> \o fields

FindMessages ==
    { Tagged(s_find, << <<s_n, VB(TRUE)>> >>),
      Tagged(s_find, << <<s_n, VB(FALSE)>> >>),
      Tagged(s_find, <<>>) }

NotifyMessages ==
    { Tagged(s_notify, << <<s_id, VI(1)>>, <<s_title, VS(<<"S","M","S">>)>> >>),
      Tagged(s_notify, << <<s_id, VI(1)>>, <<s_title, VS(<<"M","a","i","l">>)>>,
                          <<s_body, VS(<<"h","i">>)>> >>),
      Tagged(s_notify, << <<s_id, VI(2)>>, <<s_title, VS(<<"A","d">>)>> >>),
      Tagged(s_notify, << <<s_title, VS(<<"S","M","S">>)>> >>),
      Tagged(s_unnotify, << <<s_id, VI(1)>> >>),
      Tagged(s_unnotify, <<>>) }

CallMessages ==
    { Tagged(s_call, << <<s_cmd, VS(s_incoming)>>, <<s_name, VS(<<"A","l">>)>>,
                        <<s_number, VS(<<"+","4","9">>)>> >>),
      Tagged(s_call, << <<s_cmd, VS(s_outgoing)>> >>),
      Tagged(s_call, << <<s_cmd, VS(<<"r","e","j","e","c","t">>)>>,
                        <<s_name, VS(<<"A","l">>)>> >>),
      Tagged(s_call, << <<s_name, VS(<<"A","l">>)>> >>) }

CacheMessages ==
    { Tagged(s_musicstate, << <<<<"s","t","a","t","e">>, VS(<<"p","l","a","y">>)>> >>),
      Tagged(s_musicstate, << <<<<"s","t","a","t","e">>, VS(<<"p","a","u","s","e">>)>> >>),
      Tagged(s_musicinfo, << <<<<"t","r","a","c","k">>, VS(<<"x">>)>> >>),
      Tagged(s_weather, << <<<<"t","e","m","p">>, VI(20)>> >>) }

OtherMessages ==
    { Tagged(<<"a","l","a","r","m">>, <<>>),
      Tagged(<<"v","i","b","r","a","t","e">>, << <<s_n, VI(1)>> >>),
      Tagged(<<"f","r","o","b">>, << <<s_n, VI(1)>> >>),
      << <<s_id, VI(1)>> >> }

Messages ==
    FindMessages \cup NotifyMessages \cup CallMessages \cup CacheMessages
        \cup OtherMessages

\* the collaborator call of the call handler that raises, if any
FaultPoints == {"none", "notify", "wake", "switch", "pulse"}

\* settings of wasp.system._notif_filter: never set, set to an empty list,
\* set as main.py sets it
FilterSettings ==
    { [present |-> FALSE, list |-> <<>>],
      [present |-> TRUE, list |-> <<>>],
      [present |-> TRUE, list |-> MainFilter] }

\* values of the notification level slider of the settings application, plus 1
NotifyLevels == 1..3

IsTask(m, task) == DictHas(m, s_t) /\ DictGet(m, s_t) = VS(task)

(***************************************************************************)
(* State.                                                                  *)
(***************************************************************************)
VARIABLES
    notifications,  \* wasp.system.notifications
    pin,            \* wasp.watch.vibrator.pin, FALSE while vibrating
    alarms,         \* the scheduler's queue of <<time, action>>
    musicstate,     \* <<>> or <<the last musicstate payload>>
    musicinfo,      \* <<>> or <<the last musicinfo payload>>
    weather,        \* <<>> or <<the last weather payload>>
    notify_level,   \* wasp.system.notify_level
    notif_filter,   \* wasp.system._notif_filter
    app,            \* the application in the foreground
    awake,          \* the display was woken
    event,          \* the event the run loop handled last
    last_cmd,       \* <<the message of the last GB call>>, <<>> otherwise
    effects,        \* collaborator calls of the last GB call, in order
    raised,         \* the exception that left the last GB call, or "none"
    caught,         \* the exception the last GB call caught, or NoExc
    ndisp,          \* number of GB calls so far
    vib_due,        \* <<when the timeout of the find that started the present
                    \* vibration is due>>, <<>> while the motor is off
    torch,          \* the Torch application and wasp.system.brightness
    battery,        \* the Battery driver
    view,           \* the notification view (NotificationApp)
    pomodoro        \* the Pomodoro application (PomodoroApp)

vars == <<notifications, pin, alarms, musicstate, musicinfo, weather,
          notify_level, notif_filter, app, awake, event, last_cmd,
          effects, raised, caught, ndisp, vib_due, torch, battery, view,
          pomodoro>>

\* the state of the applications and drivers outside the Gadgetbridge core
appvars == <<torch, battery, view, pomodoro>>

\* the values wasp.system.brightness takes (settings.py draws these three)
Brightness == 1..3

\* the Torch application before its first foreground(), with the system
\* brightness b; entered is the system brightness at the last foreground()
TorchOff(b) ==
    [brightness |-> b, _brightness |-> 0, _ntouch |-> 0, _elapsed |-> 0,
     screen |-> "none", active |-> FALSE, asleep |-> FALSE, entered |-> 0]

\* Battery.__init__: levels is the cache of level().  estimate and shown are
\* what the last call of level() computed and returned; recent lists the
\* estimates between 0 and 100 that the latest calls computed, newest first
BatteryNew ==
    [levels |-> {}, estimate |-> -1, shown |-> -1, recent |-> <<>>]

\* NotificationApp.__init__: no text, no page, the confirmation view inactive
ViewClosed == [_msg |-> <<>>, _page |-> 0, _numpages |-> 0, confirm |-> FALSE]

_STOPPED == 0
_RUNNING == 1
_RINGING == 2
_PRESET0 == <<"1","5",",","3",",","1","5",",","3",",","1","0",",","1","0">>
_PRESET1 == <<"1","0">>
_PRESET2 == <<"2","5",",","5">>

\* PomodoroApp.__init__.  btns is "unset" until _draw() makes the buttons;
\* current_alarm is <<>> for None; squeue is <<>> until the first start;
\* adds counts the presses of "+1" of the running timer and ring_vibr the
\* vibrations since the last _alert()
PomodoroNew ==
    [current_alarm |-> <<>>, n_vibr |-> 0, last_preset |-> 0,
     queue |-> _PRESET0, last_run |-> -1, state |-> _STOPPED,
     squeue |-> <<>>, btns |-> "unset", adds |-> 0, ring_vibr |-> 0]

\* the applications and drivers as they are when the watch has booted
AppsAtBoot ==
    /\ torch = TorchOff(2)
    /\ battery = BatteryNew
    /\ view = ViewClosed
    /\ pomodoro = PomodoroNew

Sys ==
    [notifications |-> notifications, pin |-> pin, alarms |-> alarms,
     musicstate |-> musicstate, musicinfo |-> musicinfo, weather |-> weather,
     app |-> app, awake |-> awake, effects |-> <<>>]

Init ==
    /\ notifications = <<>>
    /\ pin = TRUE
    /\ alarms = <<>>
    /\ musicstate = <<>>
    /\ musicinfo = <<>>
    /\ weather = <<>>
    /\ notify_level \in NotifyLevels
    /\ notif_filter \in FilterSettings
    /\ app = "other"
    /\ awake = FALSE
    /\ event = "boot"
    /\ last_cmd = <<>>
    /\ effects = <<>>
    /\ raised = "none"
    /\ caught = NoExc
    /\ ndisp = 0
    /\ vib_due = <<>>
    /\ AppsAtBoot

\* the transport delivers the message m to GB; fault names the collaborator
\* call that raises during it, if any
Dispatch(m, fault) ==
    /\ ndisp < MaxDispatch
    /\ IsTask(m, s_find) => Len(alarms) < MaxAlarms
    /\ \E r \in {GB(Sys, m, rtc_time, notify_level, notif_filter, fault)} :
           /\ notifications' = r.s.notifications
           /\ pin' = r.s.pin
           /\ alarms' = r.s.alarms
           /\ musicstate' = r.s.musicstate
           /\ musicinfo' = r.s.musicinfo
           /\ weather' = r.s.weather
           /\ app' = r.s.app
           /\ awake' = r.s.awake
           /\ effects' = r.s.effects
           /\ raised' = r.raised
           /\ caught' = r.exc
    /\ event' = "GB"
    /\ last_cmd' = <<m>>
    /\ ndisp' = ndisp + 1
    /\ vib_due' = IF pin' THEN <<>>
                  ELSE IF pin THEN <<rtc_time + FindTimeout>>
                  ELSE vib_due
    /\ UNCHANGED <<notify_level, notif_filter>>
    /\ UNCHANGED appvars

\* one second passes
Tick ==
    /\ \A k \in 1..Len(alarms) : alarms[k][1] > rtc_time - MaxLate
    /\ alarms' = [k \in 1..Len(alarms) |-> <<alarms[k][1] - 1, alarms[k][2]>>]
    /\ event' = "tick"
    /\ last_cmd' = <<>>
    /\ effects' = <<>>
    /\ raised' = "none"
    /\ caught' = NoExc
    /\ vib_due' = IF vib_due = <<>> THEN <<>> ELSE <<vib_due[1] - 1>>
    /\ UNCHANGED <<notifications, pin, musicstate, musicinfo, weather,
                   notify_level, notif_filter, app, awake, ndisp>>
    /\ UNCHANGED appvars

\* the scheduler fires the alarm at the head of its queue
ExpireAlarm ==
    /\ Len(alarms) > 0
    /\ alarms[1][1] <= rtc_time
    /\ alarms' = Tail(alarms)
    /\ pin' = vibration_timeout(pin)
    /\ event' = "alarm"
    /\ last_cmd' = <<>>
    /\ effects' = <<>>
    /\ raised' = "none"
    /\ caught' = NoExc
    /\ vib_due' = IF pin' THEN <<>> ELSE vib_due
    /\ UNCHANGED <<notifications, musicstate, musicinfo, weather,
                   notify_level, notif_filter, app, awake, ndisp>>
    /\ UNCHANGED appvars

Next ==
    \/ \E m \in Messages : Dispatch(m, "none")
    \/ \E m \in CallMessages, fault \in FaultPoints \ {"none"} : Dispatch(m, fault)
    \/ Tick
    \/ ExpireAlarm

Spec == Init /\ [][Next]_vars

\* the clock advances and the scheduler fires due alarms
LiveSpec == Spec /\ WF_vars(Tick) /\ WF_vars(ExpireAlarm)

(***************************************************************************)
(* Filter engine under a wider choice of filter lists and payloads.        *)
(***************************************************************************)
FilterLists ==
    { [present |-> FALSE, list |-> <<>>],
      [present |-> TRUE, list |-> <<>>],
      [present |-> TRUE, list |-> MainFilter],
      [present |-> TRUE, list |-> << <<"S","M","S">> >>],
      [present |-> TRUE, list |-> << <<"i","d">> >>],
      [present |-> TRUE, list |-> << <<"1">> >>],
      [present |-> TRUE, list |-> << <<"t","r","u","e">> >>],
      [present |-> TRUE, list |-> << <<"z","z">>, <<"m","a","i","l">> >>],
      [present |-> TRUE, list |-> << <<"z","z">> >>] }

FilterProbes ==
    { Tagged(s_notify, << <<s_id, VI(1)>>, <<s_title, VS(<<"S","M","S">>)>> >>),
      Tagged(s_notify, << <<s_id, VI(2)>>, <<s_title, VS(<<"S","M","S">>)>> >>),
      Tagged(s_notify, << <<s_id, VI(2)>>, <<s_title, VS(<<"A","d">>)>> >>),
      Tagged(s_notify, << <<s_id, VI(3)>>, <<s_title, VS(<<"M","a","i","l">>)>>,
                          <<s_body, VS(<<"h","i">>)>> >>),
      Tagged(s_notify, << <<s_id, VI(12)>>, <<<<"S","m","s">>, VS(<<"h","i">>)>> >>),
      Tagged(s_notify, << <<s_id, VI(3)>>, <<<<"o","k">>, VB(TRUE)>> >>),
      Tagged(s_notify, << <<<<"o","k">>, VB(FALSE)>>, <<s_id, VI(4)>> >>) }

FilterInit ==
    /\ notifications = <<>>
    /\ pin = TRUE
    /\ alarms = <<>>
    /\ musicstate = <<>>
    /\ musicinfo = <<>>
    /\ weather = <<>>
    /\ notify_level \in NotifyLevels
    /\ notif_filter \in FilterLists
    /\ app = "other"
    /\ awake = FALSE
    /\ event = "boot"
    /\ last_cmd = <<>>
    /\ effects = <<>>
    /\ raised = "none"
    /\ caught = NoExc
    /\ ndisp = 0
    /\ vib_due = <<>>
    /\ AppsAtBoot

FilterNext == \E m \in FilterProbes : Dispatch(m, "none")

FilterSpec == FilterInit /\ [][FilterNext]_vars

(***************************************************************************)
(* Torch application (wasp/apps/flashlight.py).  The record holds the      *)
(* application's attributes and wasp.system.brightness.                    *)
(***************************************************************************)
\* the tick period requested is 3000 ms; the torch sleeps after 180 s
TorchSleepAfter == 180

\* foreground() reading the brightness to restore after it has set its own
TorchApp_foreground_saves_late(a) ==
    [a EXCEPT !._elapsed = 0, !.brightness = 3, !._brightness = 3,
              !._ntouch = 1, !.screen = "red",
              !.active = TRUE, !.asleep = FALSE, !.entered = a.brightness]

\* TorchApp.foreground
TorchApp_foreground(a) ==
    [a EXCEPT !._elapsed = 0, !._brightness = a.brightness, !.brightness = 3,
              !._ntouch = 1, !.screen = "red",
              !.active = TRUE, !.asleep = FALSE, !.entered = a.brightness]

\* TorchApp.background
TorchApp_background(a) ==
    [a EXCEPT !.brightness = a._brightness, !.active = FALSE, !.asleep = FALSE]

\* TorchApp.tick
TorchApp_tick(a) ==
    LET e == a._elapsed + 3
    IN  [a EXCEPT !._elapsed = e, !.asleep = (e >= TorchSleepAfter)]

\* TorchApp.touch
TorchApp_touch(a) ==
    LET n == (a._ntouch + 1) % 6
    IN  [a EXCEPT !._ntouch = n,
                  !.brightness = ((-n) % 3) + 1,
                  !.screen = IF (-n + 1) % 3 = 0
                             THEN (IF (-n) % 6 < 3 THEN "white" ELSE "red")
                             ELSE @]

\* what the Torch runs leave alone
TorchFrame ==
    UNCHANGED <<notifications, pin, alarms, musicstate, musicinfo, weather,
                notify_level, notif_filter, app, awake, last_cmd, effects,
                raised, caught, ndisp, vib_due, battery, view, pomodoro>>

\* the user opens the torch
TorchForeground ==
    /\ ~torch.active
    /\ torch' = TorchApp_foreground(torch)
    /\ event' = "torch.foreground"
    /\ TorchFrame

\* the user leaves the torch, or the system leaves it when it goes to sleep
TorchBackground ==
    /\ torch.active
    /\ torch' = TorchApp_background(torch)
    /\ event' = "torch.background"
    /\ TorchFrame

\* the 3 s tick of the torch; none is delivered once the system sleeps
TorchTick ==
    /\ torch.active /\ ~torch.asleep
    /\ torch' = TorchApp_tick(torch)
    /\ event' = "torch.tick"
    /\ TorchFrame

\* the user touches the screen of the torch
TorchTouch ==
    /\ torch.active /\ ~torch.asleep
    /\ torch' = TorchApp_touch(torch)
    /\ event' = "torch.touch"
    /\ TorchFrame

TorchInit ==
    /\ notifications = <<>>
    /\ pin = TRUE
    /\ alarms = <<>>
    /\ musicstate = <<>>
    /\ musicinfo = <<>>
    /\ weather = <<>>
    /\ notify_level = 2
    /\ notif_filter = [present |-> TRUE, list |-> MainFilter]
    /\ app = "other"
    /\ awake = TRUE
    /\ event = "boot"
    /\ last_cmd = <<>>
    /\ effects = <<>>
    /\ raised = "none"
    /\ caught = NoExc
    /\ ndisp = 0
    /\ vib_due = <<>>
    /\ \E b \in Brightness : torch = TorchOff(b)
    /\ battery = BatteryNew
    /\ view = ViewClosed
    /\ pomodoro = PomodoroNew

TorchNext ==
    \/ TorchForeground
    \/ TorchBackground
    \/ TorchTick
    \/ TorchTouch

TorchSpec == TorchInit /\ [][TorchNext]_vars

(***************************************************************************)
(* Battery driver (wasp/drivers/battery.py).                               *)
(***************************************************************************)
\* how many estimates the cache of level() keeps
CacheSize == 3

\* values the ADC returns for read_u16()
RawReadings == {33000, 35800, 36800, 37800, 38800, 39500, 41000}

\* Battery.voltage_mv for the ADC value raw
voltage_mv(raw) == (2 * 3300 * raw) \div 65535

\* the estimate of level() for mv millivolts
Estimate(mv) == ((19 * mv) \div 100) - 660

SetMax(S) == CHOOSE x \in S : \A y \in S : y <= x
SetMin(S) == CHOOSE x \in S : \A y \in S : x <= y

RECURSIVE Trim(_)
\* while len(levels) > 3: levels.remove(max(levels))
Trim(S) == IF Cardinality(S) > CacheSize THEN Trim(S \ {SetMax(S)}) ELSE S

\* the latest estimates, newest first, with e added when it is a new one
Remember(recent, e) ==
    IF \E k \in 1..Len(recent) : recent[k] = e THEN recent
    ELSE SubSeq(<<e>> \o recent, 1,
                IF Len(recent) + 1 > CacheSize THEN CacheSize ELSE Len(recent) + 1)

\* Battery.level with the ADC returning raw
Battery_level(b, raw) ==
    LET level == Estimate(voltage_mv(raw))
    IN  IF level >= 100
        THEN [b EXCEPT !.estimate = level, !.shown = SetMin({100})]
        ELSE IF level <= 0
        THEN [b EXCEPT !.estimate = level, !.shown = SetMin({0})]
        ELSE LET levels == IF level \notin b.levels
                           THEN Trim(b.levels \cup {level})
                           ELSE b.levels
             IN  [b EXCEPT !.levels = levels, !.estimate = level,
                           !.shown = SetMin(levels),
                           !.recent = Remember(@, level)]

\* the status bar asks for the battery level
ReadLevel(raw) ==
    /\ battery' = Battery_level(battery, raw)
    /\ event' = "battery.level"
    /\ UNCHANGED <<notifications, pin, alarms, musicstate, musicinfo, weather,
                   notify_level, notif_filter, app, awake, last_cmd, effects,
                   raised, caught, ndisp, vib_due, torch, view, pomodoro>>

BatteryInit ==
    /\ notifications = <<>>
    /\ pin = TRUE
    /\ alarms = <<>>
    /\ musicstate = <<>>
    /\ musicinfo = <<>>
    /\ weather = <<>>
    /\ notify_level = 2
    /\ notif_filter = [present |-> TRUE, list |-> MainFilter]
    /\ app = "other"
    /\ awake = TRUE
    /\ event = "boot"
    /\ last_cmd = <<>>
    /\ effects = <<>>
    /\ raised = "none"
    /\ caught = NoExc
    /\ ndisp = 0
    /\ vib_due = <<>>
    /\ AppsAtBoot

BatteryNext == \E raw \in RawReadings : ReadLevel(raw)

BatterySpec == BatteryInit /\ [][BatteryNext]_vars

(***************************************************************************)
(* Notification view (NotificationApp of wasp/apps/pager.py) as the user   *)
(* drives it.  view holds the text shown, the page, the number of the last *)
(* page and whether the confirmation view is active.                       *)
(***************************************************************************)
\* numbers of the last page that drawable.wrap can yield for a text
PageCounts == {0, 1}

\* the text NotificationApp.foreground builds from the note it popped
NotificationApp_msg(note) ==
    LET title == IF DictHas(note, s_title) THEN Str(DictGet(note, s_title))
                 ELSE <<"U","n","t","i","t","l","e","d">>
        body == IF DictHas(note, s_body) THEN Str(DictGet(note, s_body)) ELSE <<>>
        rest == JoinItems(note, {s_title, s_body})
        body1 == IF rest # <<>>
                 THEN body \o <<"\n", "(">> \o SubSeq(rest, 1, Len(rest) - 1) \o <<")">>
                 ELSE body
    IN  title \o <<":", "\n">> \o body1

\* stores the view can find: what notify and call commands have left
ViewStores ==
    LET n1 == <<VI(1), << <<s_title, VS(<<"S","M","S">>)>> >> >>
        n2 == <<VI(2), << <<s_title, VS(<<"M","a","i","l">>)>>,
                          <<s_body, VS(<<"h","i">>)>> >> >>
        n3 == <<VI(3), << <<<<"s","r","c">>, VS(<<"S","M","S">>)>> >> >>
    IN  { <<>>, <<n1>>, <<n1, n2>>, <<n2, n1>>, <<n3, n1, n2>> }

\* what the view leaves alone
ViewFrame ==
    /\ last_cmd' = <<>>
    /\ effects' = <<>>
    /\ raised' = "none"
    /\ caught' = NoExc
    /\ UNCHANGED <<alarms, musicstate, musicinfo, weather, notify_level,
                   notif_filter, awake, ndisp, vib_due, torch, battery, pomodoro>>

\* wasp.system.switch(notifier) by the user, offered while there is a
\* notification: NotificationApp.foreground
NotifierForeground ==
    /\ app # "notifier"
    /\ Len(notifications) > 0
    /\ notifications' = NotificationApp_foreground(Sys).notifications
    /\ \E n \in PageCounts :
           view' = [view EXCEPT !._msg = NotificationApp_msg(notifications[1][2]),
                                !._page = 0, !._numpages = n]
    /\ app' = "notifier"
    /\ event' = "notifier.foreground"
    /\ pin' = pin
    /\ ViewFrame

\* NotificationApp.background, when the system switches to another
\* application
NotifierBackground ==
    /\ app = "notifier"
    /\ view' = [view EXCEPT !.confirm = FALSE, !._numpages = 0]
    /\ app' = "other"
    /\ event' = "notifier.background"
    /\ UNCHANGED <<notifications, pin>>
    /\ ViewFrame

\* NotificationApp.swipe and, where it falls through, PagerApp.swipe;
\* navigate(BACK) leaves the view, which runs background()
NotifierSwipe(dir) ==
    /\ app = "notifier"
    /\ event' = "notifier.swipe"
    /\ notifications' = notifications
    /\ ViewFrame
    /\ IF view.confirm /\ dir = "UP"
       THEN view' = [view EXCEPT !.confirm = FALSE] /\ UNCHANGED <<app, pin>>
       ELSE IF ~view.confirm /\ dir = "DOWN" /\ view._page = 0
       THEN view' = [view EXCEPT !.confirm = TRUE] /\ UNCHANGED <<app, pin>>
       ELSE IF dir = "UP"
       THEN IF view._page >= view._numpages
            THEN /\ view' = [view EXCEPT !.confirm = FALSE, !._numpages = 0]
                 /\ app' = "other"
                 /\ pin' = pin
            ELSE view' = [view EXCEPT !._page = @ + 1] /\ UNCHANGED <<app, pin>>
       ELSE IF view._page <= 0
            THEN view' = view /\ app' = app /\ pin' = TRUE
            ELSE view' = [view EXCEPT !._page = @ - 1] /\ UNCHANGED <<app, pin>>

\* ConfirmationView.touch: an active confirmation view handles a touch on
\* one of its buttons, takes the answer as its value and becomes inactive
ConfirmationView_touch(active, hit) ==
    [handled |-> active /\ hit # "miss", value |-> hit = "yes"]

\* NotificationApp.touch; hit is the button of the confirmation view under
\* the finger, if any
NotifierTouch(hit) ==
    /\ app = "notifier"
    /\ event' = "notifier.touch"
    /\ pin' = pin
    /\ ViewFrame
    /\ IF ConfirmationView_touch(view.confirm, hit).handled
       THEN IF ConfirmationView_touch(view.confirm, hit).value
            THEN /\ notifications' = <<>>
                 /\ view' = [view EXCEPT !.confirm = FALSE, !._numpages = 0]
                 /\ app' = "other"
            ELSE /\ view' = [view EXCEPT !.confirm = FALSE]
                 /\ UNCHANGED <<notifications, app>>
       ELSE UNCHANGED <<notifications, app, view>>

ViewInit ==
    /\ notifications \in ViewStores
    /\ pin = TRUE
    /\ alarms = <<>>
    /\ musicstate = <<>>
    /\ musicinfo = <<>>
    /\ weather = <<>>
    /\ notify_level = 2
    /\ notif_filter = [present |-> FALSE, list |-> <<>>]
    /\ app = "other"
    /\ awake = TRUE
    /\ event = "boot"
    /\ last_cmd = <<>>
    /\ effects = <<>>
    /\ raised = "none"
    /\ caught = NoExc
    /\ ndisp = 0
    /\ vib_due = <<>>
    /\ AppsAtBoot

ViewNext ==
    \/ \E m \in NotifyMessages : Dispatch(m, "none")
    \/ NotifierForeground
    \/ NotifierBackground
    \/ \E dir \in {"UP", "DOWN"} : NotifierSwipe(dir)
    \/ \E hit \in {"yes", "no", "miss"} : NotifierTouch(hit)

ViewSpec == ViewInit /\ [][ViewNext]_vars

(***************************************************************************)
(* Pomodoro application (wasp/apps/Pomodoro.py).  Its handlers work on a   *)
(* record c of the application p and the scheduler's queue alarms.  Times  *)
(* are relative to the present second, as for the find timeout.            *)
(***************************************************************************)
\* presses of "+1" during one timer that the runs follow
MaxAdds == 1

\* length of the queues that the runs edit with the keys
MaxEdit == 2

_REPEAT_BUZZ == 3
_REPEAT_MAX == 99

\* the queue takes a key while it is shorter than this
QueueLimit == 14

\* the presets swipe() finds in globals(), by number
Presets == <<_PRESET0, _PRESET1, _PRESET2>>

\* the digit keys the runs press
DigitKeys == {"0"}

DigitValue ==
    [c \in {"0","1","2","3","4","5","6","7","8","9"} |->
        CASE c = "0" -> 0 [] c = "1" -> 1 [] c = "2" -> 2 [] c = "3" -> 3
          [] c = "4" -> 4 [] c = "5" -> 5 [] c = "6" -> 6 [] c = "7" -> 7
          [] c = "8" -> 8 [] c = "9" -> 9]

RECURSIVE ParseInt(_, _)
\* int(x) for a string of digits, acc being the value of the digits read
ParseInt(x, acc) ==
    IF Len(x) = 0 THEN acc ELSE ParseInt(Tail(x), 10 * acc + DigitValue[Head(x)])

RECURSIVE SplitComma(_, _)
\* q.split(","), cur being the piece that is being read
SplitComma(q, cur) ==
    IF Len(q) = 0 THEN <<cur>>
    ELSE IF Head(q) = "," THEN <<cur>> \o SplitComma(Tail(q), <<>>)
    ELSE SplitComma(Tail(q), Append(cur, Head(q)))

\* [int(x) for x in self.queue.split(",")]
ParseQueue(q) ==
    LET pieces == SplitComma(q, <<>>)
    IN  [k \in 1..Len(pieces) |-> ParseInt(pieces[k], 0)]

Max2(a, b) == IF a >= b THEN a ELSE b

RECURSIVE RemoveFirst(_, _)
\* wasp.system.cancel_alarm(time, action): the first such entry leaves
RemoveFirst(q, e) ==
    IF Len(q) = 0 THEN q
    ELSE IF Head(q) = e THEN Tail(q)
    ELSE <<Head(q)>> \o RemoveFirst(Tail(q), e)

cancel_alarm(alarms_, time, action) ==
    IF time = <<>> THEN alarms_ ELSE RemoveFirst(alarms_, <<time[1], action>>)

\* PomodoroApp._draw, as far as it changes the application: in the stopped
\* state it makes the buttons
PomodoroApp_draw(p) ==
    IF p.state = _STOPPED THEN [p EXCEPT !.btns = "list"] ELSE p

\* PomodoroApp._start
PomodoroApp_start(c) ==
    LET run == IF c.p.last_run + 1 >= Len(c.p.squeue) THEN 0 ELSE c.p.last_run + 1
        m == c.p.squeue[run + 1]
        at == rtc_time + Max2(m * 60 - _REPEAT_BUZZ, 1)
    IN  [p |-> PomodoroApp_draw(
                   [c.p EXCEPT !.btns = "none", !.state = _RUNNING,
                               !.last_run = run, !.current_alarm = <<at>>,
                               !.adds = 0, !.ring_vibr = 0]),
         alarms |-> InsertSorted(c.alarms, <<at, "_alert">>)]

\* _stop() leaving the alarm in the scheduler
PomodoroApp_stop_keeps_alarm(c) ==
    [p |-> PomodoroApp_draw(
               [c.p EXCEPT !.state = _STOPPED, !.last_run = -1, !.n_vibr = 0,
                           !.adds = 0, !.ring_vibr = 0]),
     alarms |-> c.alarms]

\* PomodoroApp._stop
PomodoroApp_stop(c) ==
    [p |-> PomodoroApp_draw(
               [c.p EXCEPT !.state = _STOPPED, !.last_run = -1, !.n_vibr = 0,
                           !.adds = 0, !.ring_vibr = 0]),
     alarms |-> cancel_alarm(c.alarms, c.p.current_alarm, "_alert")]

\* PomodoroApp._alert
PomodoroApp_alert(c) ==
    [c EXCEPT !.p = PomodoroApp_draw([@ EXCEPT !.state = _RINGING, !.ring_vibr = 0])]

\* PomodoroApp.background
PomodoroApp_background(c) ==
    IF c.p.state = _RINGING THEN PomodoroApp_start(c) ELSE c

\* PomodoroApp.tick
PomodoroApp_tick(c) ==
    IF c.p.state = _RINGING
    THEN LET n == c.p.n_vibr + 1
             c1 == [c EXCEPT !.p.n_vibr = n, !.p.ring_vibr = @ + 1]
         IN  IF n % _REPEAT_BUZZ = 0
             THEN IF (n \div _REPEAT_BUZZ) \div Len(c.p.squeue) < _REPEAT_MAX
                  THEN PomodoroApp_start(c1)
                  ELSE PomodoroApp_stop(c1)
             ELSE c1
    ELSE c

\* PomodoroApp.swipe
PomodoroApp_swipe(c, dir) ==
    IF c.p.state = _STOPPED
    THEN LET n == (c.p.last_preset + (IF dir = "RIGHT" THEN 1
                                      ELSE IF dir = "LEFT" THEN -1 ELSE 0))
                     % Len(Presets)
         IN  [c EXCEPT !.p.last_preset = n, !.p.queue = Presets[n + 1]]
    ELSE c

\* PomodoroApp.touch; hit is the button under the finger: "stop" or "add"
\* while a timer runs, "del", "go", "then" or a digit key while stopped
PomodoroApp_touch(c, hit) ==
    IF c.p.state = _RINGING THEN PomodoroApp_stop(c)
    ELSE IF c.p.state = _RUNNING
    THEN IF hit = "stop" THEN PomodoroApp_stop(c)
         ELSE IF hit = "add"
         THEN LET at == c.p.current_alarm[1] + 60
              IN  [p |-> [c.p EXCEPT !.current_alarm = <<at>>, !.adds = @ + 1],
                   alarms |-> InsertSorted(
                                  cancel_alarm(c.alarms, c.p.current_alarm, "_alert"),
                                  <<at, "_alert">>)]
         ELSE c
    ELSE LET q == c.p.queue
         IN  IF hit = "del"
             THEN [c EXCEPT !.p.queue = IF Len(q) > 1 THEN SubSeq(q, 1, Len(q) - 1)
                                        ELSE <<>>]
             ELSE IF hit = "go"
             THEN IF q # <<>> /\ q[Len(q)] # ","
                  THEN PomodoroApp_start([c EXCEPT !.p.squeue = ParseQueue(q)])
                  ELSE c
             ELSE IF Len(q) < QueueLimit
             THEN IF hit = "then"
                  THEN IF Len(q) >= 1 /\ q[Len(q)] # ","
                       THEN [c EXCEPT !.p.queue = Append(q, ",")]
                       ELSE c
                  ELSE IF hit \in DOMAIN DigitValue
                  THEN [c EXCEPT !.p.queue = Append(q, hit)]
                  ELSE c
             ELSE c

\* the application with the scheduler's queue
Pomo == [p |-> pomodoro, alarms |-> alarms]

\* what the Pomodoro runs leave alone
PomodoroFrame ==
    /\ last_cmd' = <<>>
    /\ effects' = <<>>
    /\ raised' = "none"
    /\ caught' = NoExc
    /\ UNCHANGED <<notifications, musicstate, musicinfo, weather, notify_level,
                   notif_filter, ndisp, vib_due, torch, battery, view>>

\* the user opens the application: PomodoroApp.foreground
PomodoroForeground ==
    /\ app # "pomodoro"
    /\ pomodoro' = PomodoroApp_draw(pomodoro)
    /\ app' = "pomodoro"
    /\ event' = "pomodoro.foreground"
    /\ UNCHANGED <<alarms, pin, awake>>
    /\ PomodoroFrame

\* the system switches to another application: PomodoroApp.background
PomodoroBackground ==
    /\ app = "pomodoro"
    /\ \E r \in {PomodoroApp_background(Pomo)} :
           pomodoro' = r.p /\ alarms' = r.alarms
    /\ app' = "other"
    /\ event' = "pomodoro.background"
    /\ UNCHANGED <<pin, awake>>
    /\ PomodoroFrame

\* the 1 s tick of the application in the foreground
PomodoroTick ==
    /\ app = "pomodoro"
    /\ \E r \in {PomodoroApp_tick(Pomo)} :
           pomodoro' = r.p /\ alarms' = r.alarms
    /\ pin' = IF pomodoro.state = _RINGING THEN TRUE ELSE pin
    /\ event' = "pomodoro.tick"
    /\ UNCHANGED <<app, awake>>
    /\ PomodoroFrame

PomodoroSwipe(dir) ==
    /\ app = "pomodoro"
    /\ \E r \in {PomodoroApp_swipe(Pomo, dir)} :
           pomodoro' = r.p /\ alarms' = r.alarms
    /\ event' = "pomodoro.swipe"
    /\ UNCHANGED <<app, pin, awake>>
    /\ PomodoroFrame

PomodoroTouch(hit) ==
    /\ app = "pomodoro"
    /\ (pomodoro.state = _RUNNING /\ hit = "add") => pomodoro.adds < MaxAdds
    /\ (pomodoro.state = _STOPPED /\ hit \in DigitKeys \cup {"then"}) =>
           Len(pomodoro.queue) < MaxEdit
    /\ (pomodoro.state = _STOPPED /\ hit = "del") =>
           Len(pomodoro.queue) <= MaxEdit
    /\ \E r \in {PomodoroApp_touch(Pomo, hit)} :
           pomodoro' = r.p /\ alarms' = r.alarms
    /\ event' = "pomodoro.touch"
    /\ UNCHANGED <<app, pin, awake>>
    /\ PomodoroFrame

\* time passes until the next alarm is due
PomodoroWait ==
    /\ Len(alarms) > 0
    /\ alarms[1][1] > rtc_time
    /\ alarms' = [k \in 1..Len(alarms) |->
                     <<alarms[k][1] - alarms[1][1], alarms[k][2]>>]
    /\ pomodoro' = [pomodoro EXCEPT
                       !.current_alarm = IF @ = <<>> THEN @
                                         ELSE <<@[1] - alarms[1][1]>>]
    /\ event' = "pomodoro.wait"
    /\ UNCHANGED <<app, pin, awake>>
    /\ PomodoroFrame

\* the scheduler fires the due alarm of the application: _alert() wakes the
\* watch and switches to the application
PomodoroAlarm ==
    /\ Len(alarms) > 0
    /\ alarms[1][1] <= rtc_time
    /\ alarms[1][2] = "_alert"
    /\ \E r \in {PomodoroApp_alert([p |-> pomodoro, alarms |-> Tail(alarms)])} :
           pomodoro' = r.p /\ alarms' = r.alarms
    /\ awake' = TRUE
    /\ app' = "pomodoro"
    /\ pin' = pin
    /\ event' = "pomodoro.alarm"
    /\ PomodoroFrame

PomodoroInit ==
    /\ notifications = <<>>
    /\ pin = TRUE
    /\ alarms = <<>>
    /\ musicstate = <<>>
    /\ musicinfo = <<>>
    /\ weather = <<>>
    /\ notify_level = 2
    /\ notif_filter = [present |-> TRUE, list |-> MainFilter]
    /\ app = "other"
    /\ awake = TRUE
    /\ event = "boot"
    /\ last_cmd = <<>>
    /\ effects = <<>>
    /\ raised = "none"
    /\ caught = NoExc
    /\ ndisp = 0
    /\ vib_due = <<>>
    /\ AppsAtBoot

PomodoroNext ==
    \/ PomodoroForeground
    \/ PomodoroBackground
    \/ PomodoroTick
    \/ \E dir \in {"LEFT", "RIGHT"} : PomodoroSwipe(dir)
    \/ \E hit \in {"stop", "add", "del", "go", "then"} \cup DigitKeys :
           PomodoroTouch(hit)
    \/ PomodoroWait
    \/ PomodoroAlarm

PomodoroSpec == PomodoroInit /\ [][PomodoroNext]_vars

(***************************************************************************)
(* Vocabulary of the properties.                                           *)
(***************************************************************************)
\* the message of the GB call that has just returned
LastMsg == last_cmd[1]

\* a GB call for a message with the tag task has just returned
JustDispatched(task) == event = "GB" /\ IsTask(LastMsg, task)

\* the fields of a message without its tag
Fields(m) == DictDel(m, s_t)

\* the collaborator call op was made during the last GB call
HasOp(op) == \E k \in 1..Len(effects) : effects[k].op = op

\* number of calls of op during the last GB call
CountOp(op) == Cardinality({k \in 1..Len(effects) : effects[k].op = op})

\* wasp.system.notify was called with the key id during the last GB call
NotifiedUnder(id) ==
    \E k \in 1..Len(effects) : effects[k].op = "notify" /\ effects[k].id = id

\* a occurs in b as a contiguous piece
Occurs(a, b) ==
    \E k \in 0..(Len(b) - Len(a)) : \A j \in 1..Len(a) : b[k + j] = a[j]

\* every field of d appears in text as "key:value"
NamesFields(text, d) ==
    \A j \in 1..Len(d) : Occurs(d[j][1] \o <<":">> \o Str(d[j][2]), text)

(***************************************************************************)
(* Properties.                                                             *)
(***************************************************************************)

\* C1: no exception propagates out of GB, whatever the message, a message
\* without the tag field 't' included.
C1_NoExceptionEscapes == raised = "none"

\* C2: whenever a handler raises inside GB, GB writes one {t:"error"} record,
\* inserts a notification under "GB_except" whose body names the task, the
\* exception text and the remaining fields, and does not re-raise.
C2_HandlerFailureReported ==
    (event = "GB" /\ caught # NoExc) =>
        /\ CountOp("error") = 1
        /\ raised = "none"
        /\ NotifiedUnder(VS(s_GB_except))
        /\ DictHas(notifications, VS(s_GB_except))
        /\ LET note == DictGet(notifications, VS(s_GB_except))
               body == Str(DictGet(note, s_body))
           IN  /\ DictGet(note, s_title) = VS(s_GB_except)
               /\ Occurs(Str(DictGet(LastMsg, s_t)), body)
               /\ Occurs(caught.text, body)
               /\ NamesFields(body, Fields(LastMsg))

\* C3 as stated: with an empty filter list every notify command is admitted
\* and stored.
C3_EmptyFilterAdmitsAll ==
    (JustDispatched(s_notify) /\ Len(notif_filter.list) = 0 /\ DictHas(LastMsg, s_id))
        => NotifiedUnder(DictGet(LastMsg, s_id))

\* C3 amended: when no filter is configured (the attribute is not set) every
\* notify command is admitted, and stored under its id when it has one; a
\* configured but empty filter list admits no notify command.
C3_UnsetFilterAdmitsAll ==
    JustDispatched(s_notify) =>
        /\ ~notif_filter.present =>
              IF DictHas(LastMsg, s_id)
              THEN /\ NotifiedUnder(DictGet(LastMsg, s_id))
                   /\ DictHas(notifications, DictGet(LastMsg, s_id))
                   /\ DictGet(notifications, DictGet(LastMsg, s_id))
                          = DictDel(Fields(LastMsg), s_id)
              ELSE caught.type = s_KeyError
        /\ (notif_filter.present /\ Len(notif_filter.list) = 0) =>
              (effects = <<>> /\ caught = NoExc /\ raised = "none")

\* a notify command that only an unset filter admits has been stored
C3_Witness ==
    /\ JustDispatched(s_notify)
    /\ ~notif_filter.present
    /\ DictHas(notifications, VI(2))

\* the notify command that has just returned passed the filter
Admitted == JustDispatched(s_notify) /\ (HasOp("pulse") \/ caught # NoExc)

\* C4: with a non-empty filter list a payload is admitted exactly when some
\* filter string, lower-cased, occurs in the lower-cased str() of some key or
\* of some value of the payload.
C4_AdmitIffSubstring ==
    (JustDispatched(s_notify) /\ notif_filter.present /\ Len(notif_filter.list) > 0) =>
        (Admitted <=>
            \E k \in 1..Len(notif_filter.list), j \in 1..Len(Fields(LastMsg)) :
                \/ Occurs(Lower(notif_filter.list[k]),
                          Lower(Fields(LastMsg)[j][1]))
                \/ Occurs(Lower(notif_filter.list[k]),
                          Lower(Str(Fields(LastMsg)[j][2]))))

\* a payload admitted only through a key, and only case-insensitively
C4_Witness ==
    /\ JustDispatched(s_notify)
    /\ notif_filter = [present |-> TRUE, list |-> << <<"S","M","S">> >>]
    /\ NotifiedUnder(VI(12))

\* the value of the field k of the message that has just been dispatched
LastField(k) == DictGet(LastMsg, k)

\* a call command with cmd "incoming" or "outgoing" has just returned
ValidCall ==
    /\ JustDispatched(s_call)
    /\ DictHas(LastMsg, s_cmd)
    /\ LastField(s_cmd) \in {VS(s_incoming), VS(s_outgoing)}

\* str() of the field k of the last message, empty when the field is absent
FieldText(k) == IF DictHas(LastMsg, k) THEN Str(LastField(k)) ELSE <<>>

\* the body of the call notification is "<name> at <number>", a newline and
\* the remaining fields as key:value joined by "/"
CallBodyAsDocumented(body) ==
    LET head == FieldText(s_name) \o <<" ","a","t"," ">> \o FieldText(s_number)
        others == DictDel(DictDel(Fields(LastMsg), s_name), s_number)
    IN  /\ Len(body) > Len(head)
        /\ SubSeq(body, 1, Len(head)) = head
        /\ body[Len(head) + 1] = "\n"
        /\ SubSeq(body, Len(head) + 2, Len(body)) = JoinItems(others, {})

\* C5 as stated: a call command with cmd incoming or outgoing inserts a
\* notification whose title is the upper-cased cmd value and whose body is
\* "<name> at <number>" followed by the remaining fields as key:value pairs.
C5_TitleIsUppercasedCmd ==
    (ValidCall /\ NotifiedUnder(VS(s_call))) =>
        /\ DictGet(effects[1].msg, s_title) = VS(Upper(Str(LastField(s_cmd))))
        /\ CallBodyAsDocumented(Str(DictGet(effects[1].msg, s_body)))

\* C5 amended: a call command with cmd incoming or outgoing inserts, under the
\* key "call", a notification whose title is the upper-cased tag, "CALL", for
\* either cmd value, and whose body is "<name> at <number>" followed by the
\* remaining fields (cmd among them) as key:value pairs.
C5_TitleIsUppercasedTag ==
    ValidCall =>
        /\ caught = NoExc => NotifiedUnder(VS(s_call))
        /\ NotifiedUnder(VS(s_call)) =>
              /\ effects[1].op = "notify"
              /\ effects[1].id = VS(s_call)
              /\ DictGet(effects[1].msg, s_title) = VS(<<"C","A","L","L">>)
              /\ CallBodyAsDocumented(Str(DictGet(effects[1].msg, s_body)))
              /\ Occurs(<<"c","m","d",":">> \o Str(LastField(s_cmd)),
                        Str(DictGet(effects[1].msg, s_body)))
        /\ (caught = NoExc /\ notify_level <= SilentLevel) =>
              /\ DictHas(notifications, VS(s_call))
              /\ DictGet(notifications, VS(s_call)) = effects[1].msg

\* an incoming call with a name and a number has been stored
C5_Witness ==
    /\ ValidCall
    /\ LastField(s_cmd) = VS(s_incoming)
    /\ DictHas(LastMsg, s_name)
    /\ DictHas(LastMsg, s_number)
    /\ DictHas(notifications, VS(s_call))

HandledTasks ==
    {VS(s_find), VS(s_notify), VS(s_unnotify), VS(s_call), VS(s_musicstate),
     VS(s_musicinfo), VS(s_weather)}

\* a message with a tag that no branch handles has just been dispatched
UnknownTask ==
    /\ event = "GB"
    /\ DictHas(LastMsg, s_t)
    /\ LastField(s_t) \notin HandledTasks

\* C7: a message with an unrecognised tag produces a GB_no_task notification
\* naming the tag and its fields; it is not a failure (no error record, no
\* GB_except notification) and no exception leaves GB.
C7_UnknownTagIsNotAFailure ==
    UnknownTask =>
        /\ NotifiedUnder(VS(s_GB_no_task))
        /\ DictHas(notifications, VS(s_GB_no_task))
        /\ LET note == DictGet(notifications, VS(s_GB_no_task))
           IN  /\ DictGet(note, s_title) = VS(s_GB_no_task)
               /\ Occurs(Str(LastField(s_t)), Str(DictGet(note, s_body)))
               /\ NamesFields(Str(DictGet(note, s_body)), Fields(LastMsg))
        /\ ~HasOp("error")
        /\ ~NotifiedUnder(VS(s_GB_except))
        /\ caught = NoExc
        /\ raised = "none"

\* a message tagged "frob" has been answered with GB_no_task
C7_Witness ==
    /\ UnknownTask
    /\ LastField(s_t) = VS(<<"f","r","o","b">>)
    /\ DictHas(notifications, VS(s_GB_no_task))

\* the entry that arms the safety net at the present second
FindEntry == <<rtc_time + FindTimeout, "vibration_timeout">>

\* C8 as stated: a find command drives the pin to the inverse of n and arms
\* the safety-net timer exactly when n is false; with n true it registers no
\* scheduler entry.
C8_ArmsOnlyWhenNFalse ==
    (JustDispatched(s_find) /\ DictHas(LastMsg, s_n)) =>
        /\ pin = ~Truthy(LastField(s_n))
        /\ HasOp("set_alarm") <=> ~Truthy(LastField(s_n))

\* C8 amended: every find command registers one safety-net entry at now + 5 s,
\* for n true and for n false alike, and a find command that carries n drives
\* the pin to the inverse of n (n true leaves the active-low pin vibrating).
C8_ArmsOnEveryFind ==
    JustDispatched(s_find) =>
        /\ CountOp("set_alarm") = 1
        /\ \E k \in 1..Len(alarms) : alarms[k] = FindEntry
        /\ DictHas(LastMsg, s_n) => pin = ~Truthy(LastField(s_n))

\* a find command with n true has left the pin vibrating, with an entry queued
C8_Witness ==
    /\ JustDispatched(s_find)
    /\ DictHas(LastMsg, s_n)
    /\ LastField(s_n) = VB(TRUE)
    /\ pin = FALSE
    /\ Len(alarms) > 0

\* a safety-net timeout due within FindTimeout seconds is pending
TimeoutPending ==
    \E k \in 1..Len(alarms) :
        /\ alarms[k][2] = "vibration_timeout"
        /\ alarms[k][1] <= rtc_time + FindTimeout

\* C9: while the pin vibrates because of a find command a safety-net timeout
\* due within 5 seconds is pending, and the pin is eventually stopped.
C9_FindVibrationEnds ==
    /\ [](pin = FALSE => TimeoutPending)
    /\ (pin = FALSE) ~> (pin = TRUE)

\* a find command has left the pin vibrating
C9_Witness == JustDispatched(s_find) /\ pin = FALSE /\ TimeoutPending

\* C10: after the safety-net callback has fired the pin is stopped; when the
\* pin was already stopped the callback changes nothing.
C10_TimeoutLeavesPinStopped ==
    [][event' = "alarm" =>
          /\ pin' = TRUE
          /\ pin = TRUE =>
                UNCHANGED <<notifications, pin, musicstate, musicinfo, weather,
                            notify_level, notif_filter, app, awake>>]_vars

\* the callback has fired and the pin is stopped
C10_Witness == event = "alarm" /\ pin = TRUE /\ ndisp > 0

\* the store holds the same entries in the same order apart from the key id
SameExcept(old, new, id) == DictDel(new, id) = DictDel(old, id)

\* the last GB call reported nothing: no diagnostic, no exception caught or
\* raised, no call of wasp.system.notify
NothingReported ==
    /\ ~HasOp("error")
    /\ ~HasOp("notify")
    /\ caught = NoExc
    /\ raised = "none"

\* C11: after a notify- command carrying an id the store holds no entry under
\* that id and its other entries are as before; so a notify- that follows a
\* notify of the same id removes what the notify stored.  When the store held
\* no entry under the id the store is unchanged and nothing is reported.
C11_UnnotifyRemoves ==
    [][(event' = "GB" /\ IsTask(last_cmd'[1], s_unnotify)
            /\ DictHas(last_cmd'[1], s_id)) =>
          LET id == DictGet(last_cmd'[1], s_id)
          IN  /\ ~DictHas(notifications', id)
              /\ SameExcept(notifications, notifications', id)
              /\ NothingReported'
              /\ ~DictHas(notifications, id) => notifications' = notifications]_vars

\* a notify- has removed an entry that an earlier notify had stored
C11_Witness ==
    /\ JustDispatched(s_unnotify)
    /\ HasOp("unnotify")
    /\ effects[1].found
    /\ ~DictHas(notifications, LastField(s_id))

\* a notify- for an id the store did not hold has returned
C11_WitnessAbsent ==
    /\ JustDispatched(s_unnotify)
    /\ HasOp("unnotify")
    /\ ~effects[1].found
    /\ Len(notifications) > 0

\* number of entries of the dict d under the key k
CountKey(d, k) == Cardinality({j \in 1..Len(d) : d[j][1] = k})

\* C12: an admitted notify command carrying an id leaves exactly one entry
\* under that id, holding the command's fields without the tag and the id,
\* whether or not the store held an entry under the id before; so of two
\* admitted notify commands with the same id the second one's fields remain.
\* The entries under other ids are as before.
C12_NotifyOverwrites ==
    [][(event' = "GB" /\ Admitted' /\ DictHas(last_cmd'[1], s_id)) =>
          LET id == DictGet(last_cmd'[1], s_id)
          IN  /\ CountKey(notifications', id) = 1
              /\ DictGet(notifications', id) = DictDel(Fields(last_cmd'[1]), s_id)
              /\ \A k \in {notifications[j][1] : j \in 1..Len(notifications)}
                         \cup {notifications'[j][1] : j \in 1..Len(notifications')} :
                     k # id =>
                        /\ CountKey(notifications', k) = CountKey(notifications, k)
                        /\ CountKey(notifications, k) = 1
                        /\ DictGet(notifications', k) = DictGet(notifications, k)]_vars

\* a second admitted notify has replaced the entry its id already had, with
\* the filter of main.py in force
C12_Witness ==
    /\ Admitted
    /\ caught = NoExc
    /\ notif_filter.present /\ notif_filter.list = MainFilter
    /\ HasOp("notify")
    /\ \E k \in 1..Len(effects) : effects[k].op = "notify" /\ effects[k].replaced
    /\ CountKey(notifications, LastField(s_id)) = 1

\* no string of the configured filter list occurs, case-insensitively, in a
\* key or in the str() of a value of the message m: the filter rejects m
Rejects(f, m) ==
    /\ f.present
    /\ ~\E k \in 1..Len(f.list), j \in 1..Len(Fields(m)) :
           \/ Occurs(Lower(f.list[k]), Lower(Fields(m)[j][1]))
           \/ Occurs(Lower(f.list[k]), Lower(Str(Fields(m)[j][2])))

\* C13: a notify command whose payload the filter rejects is dropped
\* silently: the store is unchanged, no pulse is issued, no error diagnostic
\* is written, no notification is inserted and no exception is caught or
\* raised; the call makes no collaborator call at all.
C13_RejectedNotifyIsDropped ==
    [][(event' = "GB" /\ IsTask(last_cmd'[1], s_notify)
            /\ Rejects(notif_filter, last_cmd'[1])) =>
          /\ notifications' = notifications
          /\ pin' = pin
          /\ ~HasOp("pulse")'
          /\ NothingReported'
          /\ effects' = <<>>]_vars

\* the filter of main.py has rejected a notify command while the store held
\* an entry
C13_Witness ==
    /\ JustDispatched(s_notify)
    /\ notif_filter.list = MainFilter
    /\ Rejects(notif_filter, LastMsg)
    /\ Len(notifications) > 0

\* the music and weather caches, as one component
Caches == <<musicstate, musicinfo, weather>>

\* how many of the four components a step changes: the Notification Store,
\* the vibration pin, the scheduler's alarm entries, the caches
NChanged ==
    (IF notifications' # notifications THEN 1 ELSE 0)
        + (IF pin' # pin THEN 1 ELSE 0)
        + (IF alarms' # alarms THEN 1 ELSE 0)
        + (IF Caches' # Caches THEN 1 ELSE 0)

\* the tags of the commands that are passed to a cache setter
CacheTasks == {s_musicstate, s_musicinfo, s_weather}

\* C14 as stated: a single dispatch changes one component only: of the
\* Notification Store, the vibration pin, the scheduler's alarm entries and
\* the caches, no GB call changes more than one.
C14_OneComponentPerDispatch ==
    [][event' = "GB" => NChanged <= 1]_vars

\* C14 amended: a dispatch applies the effects of the one handler its tag
\* selects, and these may reach more than one component.  A find command
\* adds a scheduler entry and drives the pin, and leaves the caches alone,
\* and the store too unless the command fails.  A musicstate, musicinfo or
\* weather command changes the cache of its tag and nothing else.  Every
\* other dispatch leaves the scheduler entries and the caches unchanged.
C14_EffectsOfOneHandler ==
    [][event' = "GB" =>
          LET m == last_cmd'[1]
          IN  /\ IsTask(m, s_find) =>
                    /\ Len(alarms') = Len(alarms) + 1
                    /\ Caches' = Caches
                    /\ caught' = NoExc =>
                          (notifications' = notifications /\ pin' = ~Truthy(DictGet(m, s_n)))
              /\ ~IsTask(m, s_find) => alarms' = alarms
              /\ IsTask(m, s_musicstate) =>
                    UNCHANGED <<notifications, pin, alarms, musicinfo, weather>>
              /\ IsTask(m, s_musicinfo) =>
                    UNCHANGED <<notifications, pin, alarms, musicstate, weather>>
              /\ IsTask(m, s_weather) =>
                    UNCHANGED <<notifications, pin, alarms, musicstate, musicinfo>>
              /\ (\A task \in CacheTasks : ~IsTask(m, task)) => Caches' = Caches]_vars

\* the first dispatch was a find command that both registered a scheduler
\* entry and set the pin vibrating
C14_Witness ==
    /\ JustDispatched(s_find)
    /\ ndisp = 1
    /\ Len(alarms) = 1
    /\ pin = FALSE
    /\ caught = NoExc

\* the tags the module documentation lists and no branch of GB handles
ReservedTasks == {<<"a","l","a","r","m">>, <<"v","i","b","r","a","t","e">>}

\* C15: a message tagged alarm or vibrate is a no-op: the store, the pin, the
\* scheduler entries and the caches are unchanged, no collaborator is called
\* and nothing is reported.
C15_ReservedTagsAreNoOps ==
    [][(event' = "GB" /\ \E task \in ReservedTasks : IsTask(last_cmd'[1], task)) =>
          /\ UNCHANGED <<notifications, pin, alarms, musicstate, musicinfo, weather>>
          /\ NothingReported'
          /\ effects' = <<>>]_vars

\* C16: while notify_level is at or below the silent threshold no GB call
\* issues a vibration pulse, whether the command is a notify, a call, one
\* with an unknown tag or one whose handler fails.
C16_SilentLevelNeverPulses ==
    (event = "GB" /\ notify_level <= SilentLevel) => ~HasOp("pulse")

\* the collaborator calls of the last GB call, in order, by name
Ops == [k \in 1..Len(effects) |-> effects[k].op]

\* C17: a call command with cmd incoming or outgoing, all of whose
\* collaborator calls return, does this and nothing more.  Above the silent
\* threshold: it stores the call notification, wakes the display, switches
\* to the notifier and then pulses three times, pausing after each pulse.  At
\* or below the threshold: it stores the call notification only.
C17_CallAlertSequence ==
    (ValidCall /\ caught = NoExc) =>
        /\ raised = "none"
        /\ effects[1].op = "notify" /\ effects[1].id = VS(s_call)
        /\ IF notify_level > SilentLevel
           THEN /\ Ops = <<"notify", "wake", "switch",
                           "pulse", "sleep", "pulse", "sleep", "pulse", "sleep">>
                /\ awake
                /\ app = "notifier"
           ELSE /\ Ops = <<"notify">>
                /\ DictHas(notifications, VS(s_call))

\* a call command has run its whole alert above the silent threshold
C17_Witness ==
    /\ ValidCall
    /\ caught = NoExc
    /\ notify_level > SilentLevel
    /\ CountOp("pulse") = CallPulses
    /\ awake

\* a call command has been stored silently
C17_WitnessSilent ==
    /\ ValidCall
    /\ caught = NoExc
    /\ notify_level <= SilentLevel
    /\ ~awake

C18_WitnessReported ==
    /\ event = "GB"
    /\ caught.type = s_KeyError
    /\ raised = "none"
    /\ Len(notifications) = 2
    /\ DictHas(notifications, VS(s_GB_except))

\* the pending scheduler entries that call vibration_timeout
SafetyNetEntries == {k \in 1..Len(alarms) : alarms[k][2] = "vibration_timeout"}

\* C19: re-arming replaces the pending timeout: whatever find commands have
\* been dispatched, at most one safety-net entry is pending in the scheduler.
C19_AtMostOneTimeoutPending == Cardinality(SafetyNetEntries) <= 1

\* C20: a musicstate, musicinfo or weather command hands the message without
\* its tag, otherwise unchanged, to the cache of its tag, which then holds
\* that payload whatever it held before; the other two caches, the store, the
\* pin and the scheduler entries are unchanged, and nothing is reported.
C20_CachePassThrough ==
    [][event' = "GB" =>
          LET m == last_cmd'[1]
          IN  /\ IsTask(m, s_musicstate) =>
                    /\ musicstate' = <<Fields(m)>>
                    /\ UNCHANGED <<musicinfo, weather, notifications, pin, alarms>>
              /\ IsTask(m, s_musicinfo) =>
                    /\ musicinfo' = <<Fields(m)>>
                    /\ UNCHANGED <<musicstate, weather, notifications, pin, alarms>>
              /\ IsTask(m, s_weather) =>
                    /\ weather' = <<Fields(m)>>
                    /\ UNCHANGED <<musicstate, musicinfo, notifications, pin, alarms>>
              /\ (\E task \in CacheTasks : IsTask(m, task)) =>
                    (NothingReported' /\ effects' = <<>>)]_vars

\* a weather command has filled its cache while the music state cache, the
\* store and the scheduler held earlier values
C20_Witness ==
    /\ JustDispatched(s_weather)
    /\ weather = <<Fields(LastMsg)>>
    /\ Len(Fields(LastMsg)) > 0
    /\ musicstate # <<>>
    /\ musicinfo = <<>>
    /\ ndisp >= 2

\* C21: when the torch goes to the background the system brightness is again
\* what it was when the torch came to the foreground, whatever touches and
\* ticks came in between.
C21_TorchRestoresBrightness ==
    /\ [][event' = "torch.background" => torch'.brightness = torch.entered]_vars
    /\ []((~torch.active /\ torch.entered # 0) => torch.brightness = torch.entered)

\* the torch has gone to the background after a touch had changed a
\* brightness that was not 3 when the torch was opened
C21_Witness ==
    /\ event = "torch.background"
    /\ torch.entered = 1
    /\ torch.brightness = 1
    /\ torch._ntouch = 3
    /\ torch._elapsed > 0

\* the set of the elements of the sequence q
Range(q) == {q[k] : k \in 1..Len(q)}

\* C22: the cache of level() holds the estimates of the latest readings, at
\* most 3 distinct values, an older one leaving when a newer one arrives;
\* level() returns the minimum of the cache, 100 for an estimate of 100 or
\* more and 0 for an estimate of 0 or less.
C22_CacheHoldsLatestEstimates ==
    /\ Cardinality(battery.levels) <= CacheSize
    /\ battery.levels = Range(battery.recent)
    /\ event = "battery.level" =>
          battery.shown = IF battery.estimate >= 100 THEN 100
                          ELSE IF battery.estimate <= 0 THEN 0
                          ELSE SetMin(battery.levels)

\* a collaborator call of the call handler raised during the last GB call
CallCollaboratorRaised ==
    /\ ValidCall
    /\ caught.type = s_Exception
    /\ caught.text = <<"f","a","u","l","t">>

\* C23: when a collaborator call of the call handler raises, the failure is
\* caught and reported, as a GB_except notification that names the tag and as
\* an error diagnostic, and no exception leaves GB.
C23_CallFaultIsReported ==
    CallCollaboratorRaised =>
        /\ raised = "none"
        /\ HasOp("error")
        /\ NotifiedUnder(VS(s_GB_except))
        /\ DictHas(notifications, VS(s_GB_except))
        /\ Occurs(s_call, Str(DictGet(DictGet(notifications, VS(s_GB_except)), s_body)))

\* C24: a find command without the field n is reported under GB_except and
\* has no partial effect: the scheduler's entries and the pin are as before.
C24_MalformedFindLeavesNoTrace ==
    [][(event' = "GB" /\ IsTask(last_cmd'[1], s_find)
            /\ ~DictHas(last_cmd'[1], s_n)) =>
          /\ NotifiedUnder(VS(s_GB_except))'
          /\ raised' = "none"
          /\ alarms' = alarms
          /\ pin' = pin]_vars

\* C25: whether a notify command is admitted depends only on its fields
\* other than the tag and the id: it is admitted exactly when the filter does
\* not reject the message with its id field taken out.  So two commands that
\* differ only in the id are admitted or rejected together, and the key name
\* "id" admits nothing.
C25_AdmissionIgnoresId ==
    JustDispatched(s_notify) =>
        (Admitted <=> ~Rejects(notif_filter, DictDel(LastMsg, s_id)))

\* the events of the notification view
ViewEvents ==
    {"notifier.foreground", "notifier.background", "notifier.swipe",
     "notifier.touch"}

\* C26: opening the notification view with a non-empty store removes one
\* entry, the first in insertion order, and leaves the others as they were,
\* in their order.  Of the other actions of the view only the confirmed
\* 'Clear notifications?' changes the store: it empties it.
C26_ViewPopsFirstEntry ==
    [][event' \in ViewEvents =>
          IF event' = "notifier.foreground"
          THEN /\ Len(notifications') = Len(notifications) - 1
               /\ \A j \in 1..Len(notifications') :
                     notifications'[j] = notifications[j + 1]
               /\ ~DictHas(notifications', notifications[1][1])
          ELSE \/ notifications' = notifications
               \/ /\ event' = "notifier.touch"
                  /\ view.confirm
                  /\ notifications' = <<>>]_vars

\* the view was opened on a store of three entries and shows the first
C26_Witness ==
    /\ event = "notifier.foreground"
    /\ Len(notifications) = 2
    /\ notifications[1][1] = VI(1)
    /\ notifications[2][1] = VI(2)
    /\ ndisp = 0

\* the confirmed clearing has removed two entries at once
C26_WitnessCleared ==
    /\ event = "notifier.touch"
    /\ notifications = <<>>
    /\ app = "other"
    /\ ndisp = 0


\* C27: Pomodoro: while ringing each tick vibrates once, and a tick starts
\* the next timer (or stops the application) exactly when the ring has had
\* _REPEAT_BUZZ vibrations.
C27_RingEndsAfterThreeVibrations ==
    [][(event' = "pomodoro.tick" /\ pomodoro.state = _RINGING) =>
           /\ pin'
           /\ (pomodoro'.state # _RINGING) <=>
                  (pomodoro.ring_vibr + 1 = _REPEAT_BUZZ)]_vars


\* the keys of the call notification and of the two synthetic notifications
FixedKeys == {VS(s_call), VS(s_GB_except), VS(s_GB_no_task)}

\* the keys of the dict d
KeysOf(d) == {d[j][1] : j \in 1..Len(d)}

\* an integer id
IsIntKey(k) == DOMAIN k = {"i"}

\* the notification that the last GB call stored last under the key id
LastNotified(id) ==
    LET ks == {k \in 1..Len(effects) : effects[k].op = "notify" /\ effects[k].id = id}
    IN  effects[CHOOSE k \in ks : \A j \in ks : j <= k].msg

\* C28: the call notification and the synthetic GB_except and GB_no_task
\* notifications are stored under the fixed keys "call", "GB_except" and
\* "GB_no_task": the store never holds two entries of one kind, a later one
\* takes the place of the earlier one, and a dispatch changes the entry of an
\* integer id only when it is a notify command for that id, which stores
\* under no fixed key.
C28_FixedKeysStandApart ==
    /\ [](\A k \in FixedKeys : CountKey(notifications, k) <= 1)
    /\ [][event' = "GB" =>
            LET m == last_cmd'[1]
                byId == IsTask(m, s_notify) /\ DictHas(m, s_id) /\ caught' = NoExc
            IN  /\ \A j \in 1..Len(effects') :
                       effects'[j].op = "notify" =>
                           IF byId THEN effects'[j].id = DictGet(m, s_id)
                           ELSE effects'[j].id \in FixedKeys
                /\ \A k \in FixedKeys :
                       (NotifiedUnder(k)' /\ DictHas(notifications', k)) =>
                           DictGet(notifications', k) = LastNotified(k)'
                /\ \A k \in KeysOf(notifications) \cap KeysOf(notifications') :
                       DictGet(notifications', k) # DictGet(notifications, k) =>
                           /\ NotifiedUnder(k)'
                           /\ IsIntKey(k) <=> byId]_vars

\* a call was stored next to the notification of an integer id
C28_Witness ==
    /\ JustDispatched(s_call)
    /\ NotifiedUnder(VS(s_call))
    /\ DictHas(notifications, VS(s_call))
    /\ DictHas(notifications, VI(1))


\* C29: the safety net stops a find vibration no earlier than 5 seconds
\* after the find command that started it: when a firing timeout stops the
\* motor, the timeout armed by the find that started this vibration is due.
C29_TimeoutNotBeforeItsFind ==
    [][(event' = "alarm" /\ ~pin /\ pin') => vib_due[1] <= rtc_time]_vars


\* the last GB call switched to the notifier and found k notifications there
SwitchedWith(k) ==
    \E j \in 1..Len(effects) : effects[j].op = "switch" /\ effects[j].pending = k

\* C30: whenever a dispatch switches to the notifier view, the store holds
\* at least one notification at that moment, so that the foreground step
\* of the view has an entry to pop and never ends in StopIteration.
C30_SwitchFindsAnEntry ==
    event = "GB" =>
        /\ ~SwitchedWith(0)
        /\ ~HasOp("StopIteration")

\* a call came into an empty store and the dispatch switched to the view
C30_Witness ==
    /\ JustDispatched(s_call)
    /\ ndisp = 1
    /\ SwitchedWith(1)
    /\ app = "notifier"
    /\ notifications = <<>>


\* the pending scheduler entries that call PomodoroApp._alert
AlertEntries == {k \in 1..Len(alarms) : alarms[k][2] = "_alert"}

\* C31: Pomodoro: in every reachable state the scheduler holds an entry for
\* _alert exactly when the application is RUNNING, it never holds two, the
\* time of the entry is current_alarm, and a touch of "+1" moves the entry
\* and current_alarm by exactly 60 seconds.
C31_OneAlertEntryWhileRunning ==
    /\ [](/\ Cardinality(AlertEntries) <= 1
          /\ (AlertEntries # {}) <=> (pomodoro.state = _RUNNING)
          /\ \A k \in AlertEntries : pomodoro.current_alarm = <<alarms[k][1]>>)
    /\ [][(event' = "pomodoro.touch" /\ pomodoro.state = _RUNNING
              /\ pomodoro'.state = _RUNNING /\ pomodoro' # pomodoro) =>
             /\ pomodoro'.current_alarm = <<pomodoro.current_alarm[1] + 60>>
             /\ alarms' = << <<pomodoro.current_alarm[1] + 60, "_alert">> >>]_vars

\* "+1" has moved the alarm of a running timer
C31_Witness ==
    /\ event = "pomodoro.touch"
    /\ pomodoro.state = _RUNNING
    /\ pomodoro.adds = 1
    /\ alarms = << <<pomodoro.current_alarm[1], "_alert">> >>

====
